---------------------------- MODULE Spec2Model ----------------------------
(***************************************************************************)
(* Model of the backtesting engine of ibkr-odte-strategies                 *)
(* (src/src/backtesting/backtest_engine.py) and of its driver              *)
(* (src/run_strategy.py, run_backtest).                                    *)
(*                                                                         *)
(* Arithmetic.  The engine computes in floating point; the model computes  *)
(* the same expressions exactly.  Prices (close, high, low) are whole      *)
(* dollars, money (premiums, P&L, capital) is counted in 1/10000 dollar,   *)
(* and the multipliers of the configuration are counted in tenths.  Every  *)
(* product and quotient the engine forms is an integer in these units for  *)
(* the inputs below, so no rounding is modelled.                           *)
(*                                                                         *)
(* Dates are day numbers; day 0 is a Monday, so d % 7 is date.weekday().   *)
(***************************************************************************)
EXTENDS Integers, Sequences, FiniteSets, TLC

(***************************************************************************)
(* Bounds of the model.                                                    *)
(***************************************************************************)
\* The longest simulated range is start_date .. start_date + MaxSpan.
MaxSpan == 4
\* The longest equity curve and the longest trade log handed to the
\* performance analyzer on its own.
MaxCurveLen == 4
MaxLogLen == 2
\* The most bars of a day handed to the breakout simulation on its own.
MaxBars == 4
\* The straddle run on its own lasts start_date .. start_date + StraddleSpan.
StraddleSpan == 2

(***************************************************************************)
(* Program constants.                                                      *)
(***************************************************************************)
\* initial_capital=10000 dollars.
InitialCapital == 100000000
\* default_config["risk_per_trade"] = 100 dollars.
RiskPerTrade == 1000000
\* default_config["volume_multiplier"] = 1.2, in tenths.
VolumeMultiplier == 12
\* default_config["tp_multiplier"] = 1.2, in tenths.
TpMultiplier == 12
\* default_config["sl_multiplier"] = 0.6, in tenths.
SlMultiplier == 6
\* premium = close * 0.015: 150 money units per dollar of close.
PremiumRate == 150
\* default_config["capital_per_trade"] = 500 dollars.
CapitalPerTrade == 5000000
\* call_premium = current_price * 0.03: 300 money units per dollar of price.
StraddlePremiumRate == 300
\* default_config["min_expected_move"] = 0.03, in percent.
MinExpectedMovePct == 3
\* Simulated earnings dates are 90 days apart.
EarningsSpacing == 90

\* "max_daily_trades": 3 of the live breakout strategy.
MaxDailyTrades == 3

Tickers == <<"AAA", "BBB">>

TickerSet == {Tickers[i] : i \in 1..Len(Tickers)}

None == "None"

(***************************************************************************)
(* Helpers of the arithmetic.                                              *)
(***************************************************************************)
\* Max that yields its second argument.
Second(a, b) == b

Max(a, b) == IF a >= b THEN a ELSE b

Abs(a) == IF a >= 0 THEN a ELSE -a

\* int(a / b) of Python: the quotient truncated toward zero (b # 0).
TruncDiv(a, b) ==
    IF (a >= 0) = (b > 0) THEN Abs(a) \div Abs(b) ELSE -(Abs(a) \div Abs(b))

RECURSIVE SumPnl(_)
SumPnl(ts) == IF ts = <<>> THEN 0 ELSE ts[1].pnl + SumPnl(Tail(ts))

\* IsWeekend with Saturday taken for a trading day.
IsWeekendSundayOnly(d) == d % 7 >= 6

\* current_date.weekday() >= 5: Saturday or Sunday.
IsWeekend(d) == d % 7 >= 5

(***************************************************************************)
(* Bars.  A bar of the provider is {timestamp, open, high, low, close,     *)
(* volume}; the engine reads high, low, close and volume.  t is the bar's  *)
(* timestamp within its day.                                               *)
(***************************************************************************)
Bar(t, close, volume) ==
    [t |-> t, close |-> close, high |-> close + 2, low |-> close - 3,
     volume |-> volume]

\* The bars of a day in the order given, stamped with increasing timestamps.
Stamp(shape) ==
    [i \in 1..Len(shape) |-> Bar(i, shape[i][1], shape[i][2])]

\* The same bars with the timestamps of the last two exchanged: a series
\* that is not in increasing timestamp order.
StampSwapped(shape) ==
    [i \in 1..Len(shape) |->
        Bar(IF i = Len(shape) THEN i - 1 ELSE IF i = Len(shape) - 1 THEN i + 1 ELSE i,
            shape[i][1], shape[i][2])]

Increasing(day) == \A i \in 1..Len(day) - 1 : day[i].t < day[i + 1].t

(***************************************************************************)
(* Configuration: default_config merged with the caller's overrides.       *)
(***************************************************************************)
BreakoutDefaults ==
    [risk_per_trade |-> RiskPerTrade, volume_multiplier |-> VolumeMultiplier,
     tp_multiplier |-> TpMultiplier, sl_multiplier |-> SlMultiplier]

StraddleDefaults ==
    [capital_per_trade |-> CapitalPerTrade, entry_days_before |-> 1,
     exit_days_after |-> 1, min_expected_move |-> MinExpectedMovePct]

\* {**default_config, **(config or {})}: the caller's keys replace the defaults.
MergeConfig(defaults, custom) ==
    [k \in DOMAIN defaults \cup DOMAIN custom |->
        IF k \in DOMAIN custom THEN custom[k] ELSE defaults[k]]

(***************************************************************************)
(* The breakout simulation of one ticker on one day.                       *)
(***************************************************************************)
\* DetectBreakout with comparisons that admit equality.
DetectBreakoutInclusive(bar, first, cfg) ==
    IF bar.close >= first.high
       /\ bar.volume * 10 >= first.volume * cfg.volume_multiplier
    THEN "CALL"
    ELSE IF bar.close <= first.low
            /\ bar.volume * 10 >= first.volume * cfg.volume_multiplier
         THEN "PUT"
         ELSE None

\* The signal of a bar against the opening range (the day's first bar).
DetectBreakout(bar, first, cfg) ==
    IF bar.close > first.high
       /\ bar.volume * 10 > first.volume * cfg.volume_multiplier
    THEN "CALL"
    ELSE IF bar.close < first.low
            /\ bar.volume * 10 > first.volume * cfg.volume_multiplier
         THEN "PUT"
         ELSE None

\* premium * (1 + (future_close - close) / close) for a CALL, and with the
\* change negated for a PUT.
OptionPrice(signal, premium, close, future_close) ==
    IF signal = "CALL"
    THEN premium + (premium * (future_close - close)) \div close
    ELSE premium + (premium * (close - future_close)) \div close

\* WalkRemaining without the break at an exit: a later bar that touches the
\* stop-loss or the take-profit replaces the exit of an earlier one.
RECURSIVE WalkRemainingLastHit(_, _, _, _, _, _, _, _, _)
WalkRemainingLastHit(remaining, j, signal, close, premium, qty, sl, tp, acc) ==
    LET future_bar == remaining[j]
        option_price == OptionPrice(signal, premium, close, future_bar.close)
        acc2 == IF option_price <= sl
                THEN [result |-> (sl - premium) * qty, exit_price |-> sl,
                      exit_time |-> future_bar.t]
                ELSE IF option_price >= tp
                THEN [result |-> (tp - premium) * qty, exit_price |-> tp,
                      exit_time |-> future_bar.t]
                ELSE IF j = Len(remaining) /\ acc.exit_time = None
                THEN [result |-> (option_price - premium) * qty,
                      exit_price |-> option_price, exit_time |-> future_bar.t]
                ELSE acc
    IN  IF j = Len(remaining)
        THEN acc2
        ELSE WalkRemainingLastHit(remaining, j + 1, signal, close, premium, qty,
                                  sl, tp, acc2)

\* The loop over the bars after the entry bar; acc holds result, exit_price
\* and exit_time as set so far.
RECURSIVE WalkRemaining(_, _, _, _, _, _, _, _, _)
WalkRemaining(remaining, j, signal, close, premium, qty, sl, tp, acc) ==
    LET future_bar == remaining[j]
        option_price == OptionPrice(signal, premium, close, future_bar.close)
    IN  IF option_price <= sl
        THEN [result |-> (sl - premium) * qty, exit_price |-> sl,
              exit_time |-> future_bar.t]
        ELSE IF option_price >= tp
        THEN [result |-> (tp - premium) * qty, exit_price |-> tp,
              exit_time |-> future_bar.t]
        ELSE LET acc2 == IF future_bar.t = remaining[Len(remaining)].t
                         THEN [result |-> (option_price - premium) * qty,
                               exit_price |-> option_price,
                               exit_time |-> future_bar.t]
                         ELSE acc
             IN  IF j = Len(remaining)
                 THEN acc2
                 ELSE WalkRemaining(remaining, j + 1, signal, close, premium,
                                    qty, sl, tp, acc2)

\* The result of a signal on its last bar of the day: no bars remain.
NoBarsRemain(day_data, premium, qty) ==
    [result |-> (-premium) * qty, exit_price |-> premium,
     exit_time |-> day_data[Len(day_data)].t]

\* The trade of a signal at bar i of the day (premium is not 0).
SimulateTrade(day_data, i, signal, date, ticker, cfg) ==
    LET close == day_data[i].close
        premium == close * PremiumRate
        qty == Max(1, TruncDiv(cfg.risk_per_trade, premium))
        sl == (premium * cfg.sl_multiplier) \div 10
        tp == (premium * cfg.tp_multiplier) \div 10
        remaining_data == SubSeq(day_data, i + 1, Len(day_data))
        out == IF remaining_data # <<>>
               THEN WalkRemaining(remaining_data, 1, signal, close, premium, qty,
                                  sl, tp,
                                  [result |-> 0, exit_price |-> premium,
                                   exit_time |-> None])
               ELSE NoBarsRemain(day_data, premium, qty)
    IN  [date |-> date, ticker |-> ticker, signal |-> signal,
         entry_time |-> day_data[i].t, exit_time |-> out.exit_time,
         entry_price |-> close, premium |-> premium, quantity |-> qty,
         exit_price |-> out.exit_price, pnl |-> out.result,
         status |-> IF out.exit_price >= tp THEN "TP"
                    ELSE IF out.exit_price <= sl THEN "SL" ELSE "EXPIRED"]

\* StopAfterSignal with the break left out.
ContinueAfterSignal == FALSE

\* The break after the first signal of a ticker's day.
StopAfterSignal == TRUE

\* The scan of the bars 2..Len(day_data) of one ticker's day: the trades it
\* appends, and whether it raised (risk_per_trade / premium with premium 0,
\* converted with int(), is an OverflowError or a ZeroDivisionError).
RECURSIVE ScanBars(_, _, _, _, _)
ScanBars(day_data, i, date, ticker, cfg) ==
    IF i > Len(day_data)
    THEN [trades |-> <<>>, raised |-> FALSE]
    ELSE LET signal == DetectBreakout(day_data[i], day_data[1], cfg)
         IN  IF signal = None
             THEN ScanBars(day_data, i + 1, date, ticker, cfg)
             ELSE IF day_data[i].close * PremiumRate = 0
             THEN [trades |-> <<>>, raised |-> TRUE]
             ELSE LET trade == SimulateTrade(day_data, i, signal, date, ticker, cfg)
                      rest == IF StopAfterSignal
                              THEN [trades |-> <<>>, raised |-> FALSE]
                              ELSE ScanBars(day_data, i + 1, date, ticker, cfg)
                  IN  [trades |-> <<trade>> \o rest.trades, raised |-> rest.raised]

(***************************************************************************)
(* The straddle simulation.                                                *)
(***************************************************************************)
\* f"{ticker}_{earnings_date}"
StraddleKey(ticker, earnings_date) == <<ticker, earnings_date>>

\* active_straddles is a dict: a sequence of entries in insertion order.
HasKey(d, key) == \E i \in 1..Len(d) : d[i].key = key

\* DictPut that appends an entry whether or not the key is held.
DictPutAppend(d, key, value) == Append(d, [key |-> key, value |-> value])

\* d[key] = value: replaces the value of a key the dict holds, appends otherwise.
DictPut(d, key, value) ==
    IF HasKey(d, key)
    THEN [i \in 1..Len(d) |-> IF d[i].key = key THEN [key |-> key, value |-> value]
                                               ELSE d[i]]
    ELSE Append(d, [key |-> key, value |-> value])

\* DictPop that leaves the entry in the dict.
DictKeep(d, key) == d

\* d.pop(key)
DictPop(d, key) == SelectSeq(d, LAMBDA e : e.key # key)

\* The earnings dates of a ticker with days_until == entry_days_before, in
\* the order of the calendar.
UpcomingEarnings(ticker_earnings, date, cfg) ==
    SelectSeq(ticker_earnings, LAMBDA e : e - date = cfg.entry_days_before)

\* NewStraddle with a quantity of at least one contract.
NewStraddleAtLeastOne(ticker, date, earnings_date, current_price, cfg) ==
    LET call_premium == current_price * StraddlePremiumRate
        put_premium == current_price * StraddlePremiumRate
        total_cost == call_premium + put_premium
        qty == IF total_cost > 0
               THEN Max(1, TruncDiv(cfg.capital_per_trade, total_cost))
               ELSE 1
    IN  [ticker |-> ticker, entry_date |-> date, earnings_date |-> earnings_date,
         entry_price |-> current_price, call_premium |-> call_premium,
         put_premium |-> put_premium, quantity |-> qty, status |-> "OPEN"]

\* The straddle opened for earnings_date on date at current_price; its
\* quantity is below 1 when the capital does not suffice.
NewStraddle(ticker, date, earnings_date, current_price, cfg) ==
    LET call_premium == current_price * StraddlePremiumRate
        put_premium == current_price * StraddlePremiumRate
        total_cost == call_premium + put_premium
        qty == IF total_cost > 0 THEN TruncDiv(cfg.capital_per_trade, total_cost)
               ELSE 0
    IN  [ticker |-> ticker, entry_date |-> date, earnings_date |-> earnings_date,
         entry_price |-> current_price, call_premium |-> call_premium,
         put_premium |-> put_premium, quantity |-> qty, status |-> "OPEN"]

\* The loop over upcoming_earnings of one ticker.
RECURSIVE OpenUpcoming(_, _, _, _, _, _, _)
OpenUpcoming(active, upcoming, ticker, date, loaded, data, cfg) ==
    IF upcoming = <<>>
    THEN active
    ELSE LET earnings_date == Head(upcoming)
             straddle == NewStraddle(ticker, date, earnings_date, data[1].close, cfg)
             next == IF ticker \notin loaded THEN active
                     ELSE IF data = <<>> THEN active
                     ELSE IF straddle.quantity < 1 THEN active
                     ELSE DictPut(active, StraddleKey(ticker, earnings_date), straddle)
         IN  OpenUpcoming(next, Tail(upcoming), ticker, date, loaded, data, cfg)

\* The loop over config['tickers'] that opens straddles.
RECURSIVE OpenLoop(_, _, _, _, _, _, _)
OpenLoop(active, k, date, calendar, loaded, data, cfg) ==
    IF k > Len(Tickers)
    THEN active
    ELSE LET ticker == Tickers[k]
             ticker_earnings == IF ticker \in DOMAIN calendar THEN calendar[ticker]
                                ELSE <<>>
             upcoming == UpcomingEarnings(ticker_earnings, date, cfg)
         IN  OpenLoop(OpenUpcoming(active, upcoming, ticker, date, loaded,
                                   data[ticker], cfg),
                      k + 1, date, calendar, loaded, data, cfg)

\* ExitDue that holds on every day.
ExitDueAlways(straddle, date, cfg) == TRUE

\* ExitDue only on the day exactly exit_days_after after the earnings.
ExitDueExactDay(straddle, date, cfg) ==
    date - straddle.earnings_date = cfg.exit_days_after

\* Cerrar después de los días configurados post-earnings.
ExitDue(straddle, date, cfg) == date - straddle.earnings_date >= cfg.exit_days_after

\* CloseTrade with the move compared strictly with min_expected_move.
CloseTradeStrict(straddle, date, current_price, cfg) ==
    LET entry_price == straddle.entry_price
        move == Abs(current_price - entry_price)
        entry_cost == straddle.call_premium + straddle.put_premium
        option_value == IF move * 100 > cfg.min_expected_move * entry_price
                        THEN entry_cost + (entry_cost * move) \div entry_price
                        ELSE entry_cost \div 2
        qty == straddle.quantity
    IN  [date |-> straddle.entry_date, ticker |-> straddle.ticker,
         strategy |-> "STRADDLE", entry_date |-> straddle.entry_date,
         exit_date |-> date, entry_price |-> entry_price,
         exit_price |-> current_price,
         price_change_pct |-> <<move * 100, entry_price>>,
         premium |-> entry_cost, quantity |-> qty,
         pnl |-> (option_value - entry_cost) * qty,
         pnl_pct |-> <<(option_value - entry_cost) * 100, entry_cost>>]

\* The trade of a straddle closed on date at current_price.  Percentages are
\* kept as <<numerator, denominator>>.
CloseTrade(straddle, date, current_price, cfg) ==
    LET entry_price == straddle.entry_price
        move == Abs(current_price - entry_price)
        entry_cost == straddle.call_premium + straddle.put_premium
        option_value == IF move * 100 >= cfg.min_expected_move * entry_price
                        THEN entry_cost + (entry_cost * move) \div entry_price
                        ELSE entry_cost \div 2
        qty == straddle.quantity
    IN  [date |-> straddle.entry_date, ticker |-> straddle.ticker,
         strategy |-> "STRADDLE", entry_date |-> straddle.entry_date,
         exit_date |-> date, entry_price |-> entry_price,
         exit_price |-> current_price,
         price_change_pct |-> <<move * 100, entry_price>>,
         premium |-> entry_cost, quantity |-> qty,
         pnl |-> (option_value - entry_cost) * qty,
         pnl_pct |-> <<(option_value - entry_cost) * 100, entry_cost>>]

\* Whether the closing loop closes this entry of the dict today.
Closes(straddle, date, loaded, data, cfg) ==
    /\ straddle.status = "OPEN"
    /\ ExitDue(straddle, date, cfg)
    /\ straddle.ticker \in loaded
    /\ data[straddle.ticker] # <<>>

\* The loop over list(active_straddles.items()): st holds the dict, the
\* trades, the day's P&L and the keys closed, as they stand.
RECURSIVE CloseLoop(_, _, _, _, _, _)
CloseLoop(items, st, date, loaded, data, cfg) ==
    IF items = <<>>
    THEN st
    ELSE LET key == Head(items).key
             straddle == Head(items).value
             trade == CloseTrade(straddle, date, data[straddle.ticker][1].close, cfg)
             next == IF Closes(straddle, date, loaded, data, cfg)
                     THEN [active |-> DictPop(st.active, key),
                           trades |-> Append(st.trades, trade),
                           daily_pnl |-> st.daily_pnl + trade.pnl,
                           closed |-> Append(st.closed, key)]
                     ELSE st
         IN  CloseLoop(Tail(items), next, date, loaded, data, cfg)

\* The fallback calendar of a ticker: start_date, start_date + 90, ...
RECURSIVE SimulatedEarnings(_, _)
SimulatedEarnings(date, last) ==
    IF date > last THEN <<>>
    ELSE <<date>> \o SimulatedEarnings(date + EarningsSpacing, last)

(***************************************************************************)
(* Performance metrics and reports.                                        *)
(***************************************************************************)
NoMetrics == [kind |-> "empty"]

Winning(ts) == SelectSeq(ts, LAMBDA t : t.pnl > 0)

\* Losing without the trades whose pnl is 0.
LosingStrict(ts) == SelectSeq(ts, LAMBDA t : t.pnl < 0)

Losing(ts) == SelectSeq(ts, LAMBDA t : t.pnl <= 0)

Sgn(a) == IF a > 0 THEN 1 ELSE IF a < 0 THEN -1 ELSE 0

\* a / b < c / d for a, c >= 0 and b, d > 0, compared through the integer
\* parts and then the reciprocals of the fractional parts, so that no
\* product is formed.
RECURSIVE LessFrac(_, _, _, _)
LessFrac(a, b, c, d) ==
    IF a \div b # c \div d THEN a \div b < c \div d
    ELSE IF c % d = 0 THEN FALSE
    ELSE IF a % b = 0 THEN TRUE
    ELSE LessFrac(d, c % d, b, a % b)

\* x = y for ratios <<numerator, denominator>> with denominators other than 0.
EqFrac(x, y) ==
    /\ Sgn(x[1]) * Sgn(x[2]) = Sgn(y[1]) * Sgn(y[2])
    /\ ~LessFrac(Abs(x[1]), Abs(x[2]), Abs(y[1]), Abs(y[2]))
    /\ ~LessFrac(Abs(y[1]), Abs(y[2]), Abs(x[1]), Abs(x[2]))

\* The value 0 of a metric.
Zero == [kind |-> "zero"]

\* abs(total_profit / total_loss) if total_loss != 0 else float('inf')
ProfitFactor(total_profit, total_loss) ==
    IF total_loss # 0
    THEN [kind |-> "ratio", value |-> <<Abs(total_profit), Abs(total_loss)>>]
    ELSE [kind |-> "inf"]

\* AnnualReturn without the guard on the days: 365 / days divides by zero.
AnnualReturnUnguarded(curve, days) ==
    IF days # 0
    THEN [kind |-> "compound", growth |-> <<curve[Len(curve)], curve[1]>>,
          exponent |-> <<365, days>>]
    ELSE [kind |-> "raised"]

\* (1 + total_return / 100) ** (365 / days) - 1 if days > 0 else 0.  The
\* power is not evaluated: the metric is kept as the growth ratio and the
\* exponent it is formed of.
AnnualReturn(curve, days) ==
    IF days > 0
    THEN [kind |-> "compound", growth |-> <<curve[Len(curve)], curve[1]>>,
          exponent |-> <<365, days>>]
    ELSE Zero

\* RunningMax that takes the initial capital for the peak throughout.
RunningMaxFirst(curve, t) == curve[1]

\* np.maximum.accumulate(equity_curve)[t]: the highest snapshot up to t.
RECURSIVE RunningMax(_, _)
RunningMax(curve, t) ==
    IF t = 1 THEN curve[1] ELSE Max(RunningMax(curve, t - 1), curve[t])

\* drawdown[t] as a ratio: (equity_curve[t] - running_max[t]) / running_max[t].
Drawdown(curve, t) == <<curve[t] - RunningMax(curve, t), RunningMax(curve, t)>>

\* min(drawdown[1..t]); every drawdown is at most 0 and the running maximum
\* is positive (the curve starts with a positive capital).
RECURSIVE MinDrawdown(_, _)
MinDrawdown(curve, t) ==
    IF t = 1 THEN Drawdown(curve, 1)
    ELSE LET rest == MinDrawdown(curve, t - 1)
             here == Drawdown(curve, t)
         IN  IF LessFrac(-rest[1], rest[2], -here[1], here[2]) THEN here ELSE rest

\* abs(min(drawdown))
MaxDrawdown(curve) ==
    LET lowest == MinDrawdown(curve, Len(curve))
    IN  <<Abs(lowest[1]), lowest[2]>>

\* np.diff(equity_curve) / equity_curve[:-1]
DailyReturns(curve) ==
    [t \in 1..Len(curve) - 1 |-> <<curve[t + 1] - curve[t], curve[t]>>]

\* np.std(daily_returns) * np.sqrt(252) * 100.  The root is not evaluated:
\* the deviation of no returns is nan, that of returns that are all equal is
\* 0, and any other is positive and kept as the returns it is formed of.
Volatility(curve) ==
    LET r == DailyReturns(curve)
    IN  IF Len(r) = 0 THEN [kind |-> "nan"]
        ELSE IF \A i, j \in 1..Len(r) : EqFrac(r[i], r[j]) THEN Zero
        ELSE [kind |-> "positive", returns |-> r]

\* (annual_return / 100) / (volatility / 100) if volatility > 0 else 0
SharpeRatio(annual_return, volatility) ==
    IF volatility.kind = "positive"
    THEN [kind |-> "ratio", annual_return |-> annual_return,
          volatility |-> volatility]
    ELSE Zero

\* CalculatePerformanceMetrics that adds the trades to the count it finds.
CalculateAccumulating(ts, curve, days, previous) ==
    IF ts = <<>>
    THEN previous
    ELSE [kind |-> "metrics",
          total_trades |-> Len(ts) + IF previous = NoMetrics THEN 0
                                     ELSE previous.total_trades]

\* calculate_performance_metrics: returns early, leaving the metrics as they
\* were, when there are no trades.  Ratios are kept as <<numerator,
\* denominator>>; a metric the engine states in percent is kept as the ratio
\* it is 100 times of.  days is (end_date - start_date).days.
CalculatePerformanceMetrics(ts, curve, days, previous) ==
    IF ts = <<>>
    THEN previous
    ELSE [kind |-> "metrics",
          total_trades |-> Len(ts),
          winning_trades |-> Len(Winning(ts)),
          losing_trades |-> Len(Losing(ts)),
          win_rate |-> <<Len(Winning(ts)), Len(ts)>>,
          profit_factor |-> ProfitFactor(SumPnl(Winning(ts)), SumPnl(Losing(ts))),
          total_profit |-> SumPnl(Winning(ts)),
          total_loss |-> SumPnl(Losing(ts)),
          net_profit |-> SumPnl(Winning(ts)) + SumPnl(Losing(ts)),
          total_return |-> <<curve[Len(curve)] - curve[1], curve[1]>>,
          annual_return |-> AnnualReturn(curve, days),
          max_drawdown |-> MaxDrawdown(curve),
          volatility |-> Volatility(curve),
          sharpe_ratio |-> SharpeRatio(AnnualReturn(curve, days), Volatility(curve))]

\* generate_performance_report aggregates the column pnl_pct of the trades;
\* pandas raises KeyError when the trades have no such column.
ReportRaises(ts, metrics) ==
    /\ ts # <<>>
    /\ metrics # NoMetrics
    /\ "pnl_pct" \notin DOMAIN ts[1]

\* The value None of a returned result.
NoneResult == [kind |-> "None"]

\* if metrics: of run_backtest (None and the empty dict are false).
Truthy(metrics) == metrics # NoneResult /\ metrics # NoMetrics

(***************************************************************************)
(* Inputs of a run.                                                        *)
(***************************************************************************)
\* start_date is a Friday or a Saturday, so that every range of more than
\* two days holds a weekend.
StartDays == {4, 5}

\* The sets of tickers whose historical data could be loaded.
LoadedSets == {{}, {"AAA"}, {"AAA", "BBB"}}

\* The caller's configurations (the contents of the strategy's config file,
\* or what load_config made of it): the tickers alone, or the tickers with a
\* premium rate of twice the engine's, and for the straddle with
\* entry_days_before.
CustomConfigs(strategy) ==
    IF strategy = "earnings_straddle"
    THEN {[tickers |-> Tickers],
          [tickers |-> Tickers, entry_days_before |-> 0,
           straddle_premium_rate |-> 2 * StraddlePremiumRate]}
    ELSE {[tickers |-> Tickers],
          [tickers |-> Tickers, premium_rate |-> 2 * PremiumRate]}

\* The contents of data/historical_earnings.json when it exists: earnings
\* dates by ticker, a date possibly listed twice, a ticker possibly absent.
EarningsFiles(start) ==
    { [t \in {"AAA"} |-> <<start + 1>>],
      [t \in TickerSet |-> IF t = "AAA" THEN <<start + 1, start + 1>>
                           ELSE <<start + 3>>],
      [t \in TickerSet |-> IF t = "AAA" THEN <<start, start + 3>>
                           ELSE <<start + 1>>] }

\* The bars of one ticker on one day, as <<close, volume>> in the order
\* supplied.  Breakout: no bars; a signal on the day's last bar; three
\* qualifying bars, the third of which also reaches the take-profit of the
\* first; a PUT signal followed by a bar that qualifies for a CALL and
\* touches neither exit; a qualifying bar with close 0.
BreakoutShapes ==
    { <<>>,
      << <<98, 1000>>, <<101, 1300>> >>,
      << <<98, 1000>>, <<101, 1300>>, <<103, 1300>>, <<130, 1300>> >>,
      << <<98, 1000>>, <<90, 1300>>, <<101, 1300>> >>,
      << <<98, 1000>>, <<0, 1300>> >> }

\* Straddle: only the first close of the day is read.  A close of 9000 makes
\* one straddle cost more than capital_per_trade.
StraddleShapes ==
    { <<>>, << <<200, 1000>> >>, << <<202, 1000>> >>, << <<210, 1000>> >>,
      << <<0, 1000>> >>, << <<9000, 1000>> >> }

Shapes(strategy) ==
    IF strategy = "odte_breakout" THEN BreakoutShapes ELSE StraddleShapes

\* The series a provider that honours sort=asc supplies for a day.
SortedDays(strategy) == {Stamp(sh) : sh \in Shapes(strategy)}

\* The series of any provider: also out of timestamp order.
AnyOrderDays(strategy) ==
    SortedDays(strategy)
    \cup {StampSwapped(sh) : sh \in {x \in Shapes(strategy) : Len(x) >= 3}}

NoData == [t \in TickerSet |-> <<>>]

(***************************************************************************)
(* State.                                                                  *)
(***************************************************************************)
VARIABLES
    strategy_name,       \* args.strategy
    custom_config,       \* the config argument of the backtest call
    start_date,          \* self.start_date
    end_date,            \* self.end_date
    historical_data,     \* the tickers load_historical_data returned data for
    earnings_file,       \* data/historical_earnings.json, if it exists
    config,              \* the config of the call: as passed, then merged
    earnings_dates,      \* the earnings calendar of the run
    pc,                  \* where the run stands
    current_date,        \* the day of the loop
    ticker_idx,          \* the position of the loop over config['tickers']
    day_data,            \* the bars of current_date, by ticker
    daily_pnl,
    current_capital,
    trades,              \* self.trades
    equity_curve,        \* self.equity_curve
    active_straddles,
    performance_metrics, \* self.performance_metrics
    returned,            \* what the backtest call returned
    driver_log,          \* what run_backtest logged about the run
    visited,             \* history: the dates the day loop has taken up
    opened_keys,         \* history: the straddle keys ever opened
    closed_keys,         \* history: the straddle keys closed, in order
    heap,                \* the IBKRConnection objects created, in order
    instances,           \* IBKRConnection._instances: client_id -> object
    lock,                \* the thread that holds IBKRConnection._lock
    threads,             \* the strategy threads: position, client_id, self
    now_date,            \* datetime.now().date()
    last_reset_date,     \* last_reset_date of ODTEBreakoutStrategy.run
    daily_trades_count,  \* self.daily_trades_count
    opportunities,       \* what is left of the opportunities of a scan
    live_pc              \* where the loop of run stands

vars ==
    <<strategy_name, custom_config, start_date, end_date, historical_data,
      earnings_file, config, earnings_dates, pc, current_date, ticker_idx, day_data,
      daily_pnl, current_capital, trades, equity_curve, active_straddles,
      performance_metrics, returned, driver_log, visited, opened_keys,
      closed_keys, heap, instances, lock, threads, now_date, last_reset_date,
      daily_trades_count, opportunities, live_pc>>

\* The state of the connection singleton and of the strategy threads.
connection == <<heap, instances, lock, threads>>

\* The state of the live loop of the breakout strategy.
live == <<now_date, last_reset_date, daily_trades_count, opportunities, live_pc>>

\* No connection has been constructed and no thread started.
NoConnection ==
    /\ heap = <<>>
    /\ instances = [c \in {} |-> 0]
    /\ lock = None
    /\ threads = [t \in {} |-> None]

\* No live strategy is running.
NoLiveLoop ==
    /\ now_date = 0
    /\ last_reset_date = 0
    /\ daily_trades_count = 0
    /\ opportunities = <<>>
    /\ live_pc = "stopped"

inputs ==
    <<strategy_name, custom_config, start_date, end_date, historical_data,
      earnings_file>>

\* BacktestEngine.__init__, and the arguments run_backtest is called with.
Init ==
    /\ strategy_name \in {"odte_breakout", "earnings_straddle"}
    /\ start_date \in StartDays
    /\ end_date \in (start_date - 1)..(start_date + MaxSpan)
    /\ historical_data \in LoadedSets
    /\ earnings_file \in
         IF strategy_name = "earnings_straddle"
         THEN {[exists |-> FALSE]}
              \cup {[exists |-> TRUE, dates |-> f] : f \in EarningsFiles(start_date)}
         ELSE {[exists |-> FALSE]}
    /\ custom_config \in CustomConfigs(strategy_name)
    /\ config = custom_config
    /\ earnings_dates = [t \in {} |-> <<>>]
    /\ pc = "start"
    /\ current_date = start_date
    /\ ticker_idx = 1
    /\ day_data = NoData
    /\ daily_pnl = 0
    /\ current_capital = InitialCapital
    /\ trades = <<>>
    /\ equity_curve = <<>>
    /\ active_straddles = <<>>
    /\ performance_metrics = NoMetrics
    /\ returned = NoneResult
    /\ driver_log = "none"
    /\ visited = <<>>
    /\ opened_keys = {}
    /\ closed_keys = <<>>
    /\ NoConnection
    /\ NoLiveLoop

(***************************************************************************)
(* The run: backtest_odte_breakout and backtest_earnings_straddle, called  *)
(* by run_backtest.                                                        *)
(***************************************************************************)
IsBreakout == strategy_name = "odte_breakout"

\* ApplyDailyPnl without the day's P&L.
ApplyDailyPnlDropped(capital, pnl) == capital

\* Adds the day's P&L to the capital: the snapshot appended to the curve.
ApplyDailyPnl(capital, pnl) == capital + pnl

\* The call up to the day loop: the configuration is merged, the data are
\* loaded, the earnings calendar is read or simulated, the results are reset.
\* Without any data the call logs an error and returns None.
StartRun ==
    /\ pc = "start"
    /\ config' = MergeConfig(IF IsBreakout THEN BreakoutDefaults
                             ELSE StraddleDefaults, config)
    /\ IF historical_data = {}
       THEN /\ pc' = "done"
            /\ returned' = NoneResult
            /\ driver_log' = "error"
            /\ UNCHANGED <<earnings_dates, trades, equity_curve, current_capital,
                           current_date, active_straddles>>
       ELSE /\ pc' = "loop"
            /\ earnings_dates' =
                 IF IsBreakout THEN earnings_dates
                 ELSE IF earnings_file.exists THEN earnings_file.dates
                 ELSE [t \in TickerSet |-> SimulatedEarnings(start_date, end_date)]
            /\ trades' = <<>>
            /\ equity_curve' = <<InitialCapital>>
            /\ current_capital' = InitialCapital
            /\ current_date' = start_date
            /\ active_straddles' = <<>>
            /\ UNCHANGED <<returned, driver_log>>
    /\ UNCHANGED <<inputs, connection, live, ticker_idx, day_data, daily_pnl, performance_metrics,
                   visited, opened_keys, closed_keys>>

\* Saltar fines de semana.
SkipWeekend ==
    /\ pc = "loop"
    /\ current_date <= end_date
    /\ IsWeekend(current_date)
    /\ current_date' = current_date + 1
    /\ visited' = Append(visited, current_date)
    /\ UNCHANGED <<inputs, connection, live, config, earnings_dates, pc, ticker_idx, day_data,
                   daily_pnl, current_capital, trades, equity_curve,
                   active_straddles, performance_metrics, returned, driver_log,
                   opened_keys, closed_keys>>

\* A simulated day begins: daily_pnl = 0.  days is the set of series the
\* provider may hold for a ticker on this date.
BeginDay(days) ==
    /\ pc = "loop"
    /\ current_date <= end_date
    /\ ~IsWeekend(current_date)
    /\ \E data \in [TickerSet -> days] :
          /\ \A t \in TickerSet \ historical_data : data[t] = <<>>
          /\ day_data' = data
    /\ daily_pnl' = 0
    /\ ticker_idx' = 1
    /\ pc' = "tickers"
    /\ visited' = Append(visited, current_date)
    /\ UNCHANGED <<inputs, connection, live, config, earnings_dates, current_date, current_capital,
                   trades, equity_curve, active_straddles, performance_metrics,
                   returned, driver_log, opened_keys, closed_keys>>

\* One pass of the loop over config['tickers'] of the breakout run.  An
\* exception leaves backtest_odte_breakout and run_backtest.
BreakoutTicker ==
    /\ pc = "tickers"
    /\ IsBreakout
    /\ ticker_idx <= Len(config.tickers)
    /\ LET ticker == config.tickers[ticker_idx]
           out == IF ticker \notin historical_data \/ day_data[ticker] = <<>>
                  THEN [trades |-> <<>>, raised |-> FALSE]
                  ELSE ScanBars(day_data[ticker], 2, current_date, ticker, config)
       IN  /\ trades' = trades \o out.trades
           /\ daily_pnl' = daily_pnl + SumPnl(out.trades)
           /\ IF out.raised
              THEN /\ pc' = "raised"
                   /\ driver_log' = "exception"
                   /\ UNCHANGED ticker_idx
              ELSE /\ pc' = IF ticker_idx = Len(config.tickers) THEN "end"
                            ELSE "tickers"
                   /\ ticker_idx' = ticker_idx + 1
                   /\ UNCHANGED driver_log
    /\ UNCHANGED <<inputs, connection, live, config, earnings_dates, current_date, day_data,
                   current_capital, equity_curve, active_straddles,
                   performance_metrics, returned, visited, opened_keys,
                   closed_keys>>

\* Verificar straddles para abrir: the whole loop over config['tickers'].
OpenStraddles ==
    /\ pc = "tickers"
    /\ ~IsBreakout
    /\ active_straddles' = OpenLoop(active_straddles, 1, current_date,
                                    earnings_dates, historical_data, day_data,
                                    config)
    /\ opened_keys' = opened_keys
                      \cup {active_straddles'[i].key : i \in 1..Len(active_straddles')}
    /\ pc' = "closing"
    /\ UNCHANGED <<inputs, connection, live, config, earnings_dates, current_date, ticker_idx,
                   day_data, daily_pnl, current_capital, trades, equity_curve,
                   performance_metrics, returned, driver_log, visited,
                   closed_keys>>

\* Verificar straddles para cerrar: the whole loop over the active straddles.
CloseStraddles ==
    /\ pc = "closing"
    /\ LET st == CloseLoop(active_straddles,
                           [active |-> active_straddles, trades |-> trades,
                            daily_pnl |-> daily_pnl, closed |-> closed_keys],
                           current_date, historical_data, day_data, config)
       IN  /\ active_straddles' = st.active
           /\ trades' = st.trades
           /\ daily_pnl' = st.daily_pnl
           /\ closed_keys' = st.closed
    /\ pc' = "end"
    /\ UNCHANGED <<inputs, connection, live, config, earnings_dates, current_date, ticker_idx,
                   day_data, current_capital, equity_curve, performance_metrics,
                   returned, driver_log, visited, opened_keys>>

\* Actualizar capital y curva de equidad; the loop moves to the next day.
EndDay ==
    /\ pc = "end"
    /\ current_capital' = ApplyDailyPnl(current_capital, daily_pnl)
    /\ equity_curve' = Append(equity_curve, current_capital')
    /\ current_date' = current_date + 1
    /\ day_data' = NoData
    /\ pc' = "loop"
    /\ UNCHANGED <<inputs, connection, live, config, earnings_dates, ticker_idx, daily_pnl, trades,
                   active_straddles, performance_metrics, returned, driver_log,
                   visited, opened_keys, closed_keys>>

\* After the last day: the metrics are calculated, the reports generated and
\* the metrics returned to run_backtest, which logs the run as completed when
\* they are truthy and as an error otherwise.
Finish ==
    /\ pc = "loop"
    /\ current_date > end_date
    /\ performance_metrics' =
         CalculatePerformanceMetrics(trades, equity_curve, end_date - start_date,
                                     performance_metrics)
    /\ IF ReportRaises(trades, performance_metrics')
       THEN /\ pc' = "raised"
            /\ driver_log' = "exception"
            /\ UNCHANGED returned
       ELSE /\ pc' = "done"
            /\ returned' = performance_metrics'
            /\ driver_log' = IF Truthy(returned') THEN "completed" ELSE "error"
    /\ UNCHANGED <<inputs, connection, live, config, earnings_dates, current_date, ticker_idx,
                   day_data, daily_pnl, current_capital, trades, equity_curve,
                   active_straddles, visited, opened_keys, closed_keys>>

Next ==
    \/ StartRun
    \/ SkipWeekend
    \/ BeginDay(SortedDays(strategy_name))
    \/ BreakoutTicker
    \/ OpenStraddles
    \/ CloseStraddles
    \/ EndDay
    \/ Finish

Spec == Init /\ [][Next]_vars

\* The run with a provider that may supply a day's bars out of order.
NextAnyOrder ==
    \/ StartRun
    \/ SkipWeekend
    \/ BeginDay(AnyOrderDays(strategy_name))
    \/ BreakoutTicker
    \/ OpenStraddles
    \/ CloseStraddles
    \/ EndDay
    \/ Finish

SpecAnyOrder == Init /\ [][NextAnyOrder]_vars

(***************************************************************************)
(* The breakout simulation of one day on its own: a one-day run taken up   *)
(* where the day's bars have been fetched, for every day of up to MaxBars  *)
(* bars.                                                                   *)
(***************************************************************************)
\* The sequences over S of length lo..hi.
SeqsOf(S, lo, hi) == UNION {[1..n -> S] : n \in lo..hi}

\* Bars as <<close, volume>>.  After an opening bar <<98, 1000>> (high 100,
\* low 95): a close equal to the range high, a CALL signal, the same close
\* with a volume of exactly 1.2 times the opening volume, a close at which a
\* CALL entered at 105 is worth exactly its take-profit, a close at which it
\* is worth exactly its stop-loss (and which is a PUT signal), a close equal
\* to the range low, and a close of 0.
DayBars ==
    { <<98, 1000>>, <<100, 1300>>, <<105, 1300>>, <<105, 1200>>, <<126, 1300>>,
      <<63, 1300>>, <<95, 1300>>, <<0, 1300>> }

\* The caller's configurations of the day: the defaults, and a risk of one
\* dollar per trade with a stop-loss at 0 and a take-profit at the entry
\* premium (sl_multiplier 0.0, tp_multiplier 1.0).
DayConfigs ==
    { [tickers |-> Tickers],
      [tickers |-> Tickers, risk_per_trade |-> 10000, sl_multiplier |-> 0,
       tp_multiplier |-> 10] }

\* The bars of the day before, as <<close, volume>>: none, or a day whose
\* last bar signals at a close of 1000000, a premium of 15000 dollars that
\* is lost whole and leaves the capital negative.
DaysBefore == { <<>>, << <<98, 1000>>, <<1000000, 1300>> >> }

\* The run stands at the ticker loop of its last day: its only day, or its
\* second day after a day with a trade of the first ticker.
InitDay ==
    /\ strategy_name = "odte_breakout"
    /\ custom_config \in DayConfigs
    /\ start_date = 0
    /\ historical_data = {"AAA"}
    /\ earnings_file = [exists |-> FALSE]
    /\ config = MergeConfig(BreakoutDefaults, custom_config)
    /\ earnings_dates = [t \in {} |-> <<>>]
    /\ pc = "tickers"
    /\ ticker_idx = 1
    /\ \E shape \in SeqsOf(DayBars, 0, MaxBars) :
          day_data = [t \in TickerSet |-> IF t = "AAA" THEN Stamp(shape) ELSE <<>>]
    /\ daily_pnl = 0
    /\ \E before \in DaysBefore :
          IF before = <<>>
          THEN /\ current_date = start_date
               /\ trades = <<>>
               /\ equity_curve = <<InitialCapital>>
               /\ visited = <<start_date>>
          ELSE /\ current_date = start_date + 1
               /\ trades = ScanBars(Stamp(before), 2, start_date, "AAA", config).trades
               /\ equity_curve =
                    <<InitialCapital, ApplyDailyPnl(InitialCapital, SumPnl(trades))>>
               /\ visited = <<start_date, start_date + 1>>
    /\ end_date = current_date
    /\ current_capital = equity_curve[Len(equity_curve)]
    /\ active_straddles = <<>>
    /\ performance_metrics = NoMetrics
    /\ returned = NoneResult
    /\ driver_log = "none"
    /\ opened_keys = {}
    /\ closed_keys = <<>>
    /\ NoConnection
    /\ NoLiveLoop

NextDay == BreakoutTicker \/ EndDay \/ Finish

SpecDay == InitDay /\ [][NextDay]_vars

(***************************************************************************)
(* The straddle run on its own: one symbol with data, its earnings on the  *)
(* day after start_date, and a first close of every day out of closes that *)
(* move by 1, 2.5, exactly 3, 3.5 and 5 percent of 200.                    *)
(***************************************************************************)
StraddleCloses == {194, 200, 202, 205, 206, 207, 210}

\* The series of a day: no bars, or one bar with one of the closes.
RichStraddleDays ==
    {Stamp(<<>>)} \cup {Stamp(<< <<c, 1000>> >>) : c \in StraddleCloses}

InitStraddle ==
    /\ strategy_name = "earnings_straddle"
    /\ custom_config = [tickers |-> Tickers]
    /\ start_date = 0
    /\ end_date = start_date + StraddleSpan
    /\ historical_data = {"AAA"}
    /\ earnings_file = [exists |-> TRUE,
                        dates |-> [t \in {"AAA"} |-> <<start_date + 1>>]]
    /\ config = custom_config
    /\ earnings_dates = [t \in {} |-> <<>>]
    /\ pc = "start"
    /\ current_date = start_date
    /\ ticker_idx = 1
    /\ day_data = NoData
    /\ daily_pnl = 0
    /\ current_capital = InitialCapital
    /\ trades = <<>>
    /\ equity_curve = <<>>
    /\ active_straddles = <<>>
    /\ performance_metrics = NoMetrics
    /\ returned = NoneResult
    /\ driver_log = "none"
    /\ visited = <<>>
    /\ opened_keys = {}
    /\ closed_keys = <<>>
    /\ NoConnection
    /\ NoLiveLoop

NextStraddle ==
    \/ StartRun
    \/ BeginDay(RichStraddleDays)
    \/ OpenStraddles
    \/ CloseStraddles
    \/ EndDay
    \/ Finish

SpecStraddle == InitStraddle /\ [][NextStraddle]_vars

(***************************************************************************)
(* One engine called more than once: backtest_earnings_straddle returns,   *)
(* and is called again with a configuration of the caller's choice.        *)
(***************************************************************************)
\* The configurations of a call: the defaults, or a capital_per_trade of one
\* dollar, which buys no straddle.
RepeatConfigs ==
    { [tickers |-> Tickers],
      [tickers |-> Tickers, capital_per_trade |-> 10000] }

\* The series of a day: no bars, or one bar closing at 200 or at 210.
RepeatDays ==
    {Stamp(<<>>), Stamp(<< <<200, 1000>> >>), Stamp(<< <<210, 1000>> >>)}

InitRepeat ==
    /\ strategy_name = "earnings_straddle"
    /\ custom_config \in RepeatConfigs
    /\ start_date = 0
    /\ end_date = start_date + StraddleSpan
    /\ historical_data = {"AAA"}
    /\ earnings_file = [exists |-> TRUE,
                        dates |-> [t \in {"AAA"} |-> <<start_date + 1>>]]
    /\ config = custom_config
    /\ earnings_dates = [t \in {} |-> <<>>]
    /\ pc = "start"
    /\ current_date = start_date
    /\ ticker_idx = 1
    /\ day_data = NoData
    /\ daily_pnl = 0
    /\ current_capital = InitialCapital
    /\ trades = <<>>
    /\ equity_curve = <<>>
    /\ active_straddles = <<>>
    /\ performance_metrics = NoMetrics
    /\ returned = NoneResult
    /\ driver_log = "none"
    /\ visited = <<>>
    /\ opened_keys = {}
    /\ closed_keys = <<>>
    /\ NoConnection
    /\ NoLiveLoop

\* The engine is called again after a call has returned: the attributes of
\* the engine are as the earlier call left them.
CallAgain ==
    /\ pc = "done"
    /\ pc' = "start"
    /\ custom_config' \in RepeatConfigs
    /\ config' = custom_config'
    /\ returned' = NoneResult
    /\ driver_log' = "none"
    /\ visited' = <<>>
    /\ opened_keys' = {}
    /\ closed_keys' = <<>>
    /\ UNCHANGED <<strategy_name, start_date, end_date, historical_data,
                   earnings_file, earnings_dates, current_date, ticker_idx,
                   day_data, daily_pnl, current_capital, trades, equity_curve,
                   active_straddles, performance_metrics, connection, live>>

NextRepeat ==
    \/ StartRun
    \/ BeginDay(RepeatDays)
    \/ OpenStraddles
    \/ CloseStraddles
    \/ EndDay
    \/ Finish
    \/ CallAgain

SpecRepeat == InitRepeat /\ [][NextRepeat]_vars

(***************************************************************************)
(* The performance analyzer on its own: calculate_performance_metrics      *)
(* called, and called again, on an engine that holds a trade log, an       *)
(* equity curve and the dates of a run.                                    *)
(***************************************************************************)
\* Snapshots of the equity: 9800, 10000, 10500 and 11000 dollars.
EquityLevels == {98000000, 100000000, 105000000, 110000000}

\* The pnl of a trade: a loss of 300 dollars, nothing, a profit of 500.
PnlLevels == {-3000000, 0, 5000000}

\* end_date - start_date, in days.
AnalyzerSpans == {-1, 0, 3}

InitAnalyzer ==
    /\ strategy_name = "earnings_straddle"
    /\ custom_config = [tickers |-> Tickers]
    /\ start_date = 0
    /\ end_date \in {start_date + d : d \in AnalyzerSpans}
    /\ historical_data = TickerSet
    /\ earnings_file = [exists |-> FALSE]
    /\ config = MergeConfig(StraddleDefaults, custom_config)
    /\ earnings_dates = [t \in {} |-> <<>>]
    /\ pc = "analyze"
    /\ current_date = end_date + 1
    /\ ticker_idx = 1
    /\ day_data = NoData
    /\ daily_pnl = 0
    /\ equity_curve \in SeqsOf(EquityLevels, 1, MaxCurveLen)
    /\ current_capital = equity_curve[Len(equity_curve)]
    /\ trades \in {[i \in DOMAIN log |-> [pnl |-> log[i]]] :
                      log \in SeqsOf(PnlLevels, 0, MaxLogLen)}
    /\ active_straddles = <<>>
    /\ performance_metrics = NoMetrics
    /\ returned = NoneResult
    /\ driver_log = "none"
    /\ visited = <<>>
    /\ opened_keys = {}
    /\ closed_keys = <<>>
    /\ NoConnection
    /\ NoLiveLoop

\* self.performance_metrics after a call of calculate_performance_metrics.
Recalculated ==
    CalculatePerformanceMetrics(trades, equity_curve, end_date - start_date,
                                performance_metrics)

\* calculate_performance_metrics()
Analyze ==
    /\ pc = "analyze"
    /\ performance_metrics' = Recalculated
    /\ pc' = "analyzed"
    /\ UNCHANGED <<inputs, connection, live, config, earnings_dates, current_date, ticker_idx,
                   day_data, daily_pnl, current_capital, trades, equity_curve,
                   active_straddles, returned, driver_log, visited, opened_keys,
                   closed_keys>>

\* calculate_performance_metrics() once more, on the same engine.
AnalyzeAgain ==
    /\ pc = "analyzed"
    /\ performance_metrics' = Recalculated
    /\ pc' = "analyzed twice"
    /\ UNCHANGED <<inputs, connection, live, config, earnings_dates, current_date, ticker_idx,
                   day_data, daily_pnl, current_capital, trades, equity_curve,
                   active_straddles, returned, driver_log, visited, opened_keys,
                   closed_keys>>

NextAnalyzer == Analyze \/ AnalyzeAgain

SpecAnalyzer == InitAnalyzer /\ [][NextAnalyzer]_vars

(***************************************************************************)
(* The connection singleton: the threads run_strategies starts, each       *)
(* constructing IBKRConnection(client_id=...) for its strategy.            *)
(***************************************************************************)
Threads == {"Thread-odte_breakout", "Thread-earnings_straddle"}

\* ibkr_client_id of a strategy's configuration.
ClientIds == {1, 2}

\* No backtest is running.
NoBacktest ==
    /\ strategy_name = "odte_breakout"
    /\ custom_config = [tickers |-> Tickers]
    /\ start_date = 0
    /\ end_date = 0
    /\ historical_data = {}
    /\ earnings_file = [exists |-> FALSE]
    /\ config = custom_config
    /\ earnings_dates = [t \in {} |-> <<>>]
    /\ pc = "idle"
    /\ current_date = 0
    /\ ticker_idx = 1
    /\ day_data = NoData
    /\ daily_pnl = 0
    /\ current_capital = InitialCapital
    /\ trades = <<>>
    /\ equity_curve = <<>>
    /\ active_straddles = <<>>
    /\ performance_metrics = NoMetrics
    /\ returned = NoneResult
    /\ driver_log = "none"
    /\ visited = <<>>
    /\ opened_keys = {}
    /\ closed_keys = <<>>

backtest ==
    <<inputs, config, earnings_dates, pc, current_date, ticker_idx, day_data,
      daily_pnl, current_capital, trades, equity_curve, active_straddles,
      performance_metrics, returned, driver_log, visited, opened_keys,
      closed_keys>>

\* The threads have been started; none has constructed a connection yet.
InitConnection ==
    /\ NoBacktest
    /\ NoLiveLoop
    /\ heap = <<>>
    /\ instances = [c \in ClientIds |-> 0]
    /\ lock = None
    /\ threads \in [Threads -> {[pc |-> "new", client_id |-> c, self |-> 0] :
                                    c \in ClientIds}]

\* __new__: with cls._lock, entered.
Acquire(t) ==
    /\ threads[t].pc = "new"
    /\ lock = None
    /\ lock' = t
    /\ threads' = [threads EXCEPT ![t].pc = "locked"]
    /\ UNCHANGED <<backtest, live, heap, instances>>

\* __new__: the body of the with statement, which creates and registers the
\* object of a client_id not registered yet, and returns the registered one.
Lookup(t) ==
    /\ threads[t].pc = "locked"
    /\ lock = t
    /\ LET client_id == threads[t].client_id
       IN  /\ IF instances[client_id] = 0
              THEN /\ heap' = Append(heap, [initialized |-> FALSE, ib |-> 0,
                                            handlers |-> 0])
                   /\ instances' = [instances EXCEPT ![client_id] = Len(heap')]
              ELSE UNCHANGED <<heap, instances>>
           /\ threads' = [threads EXCEPT ![t].pc = "init",
                                         ![t].self = instances'[client_id]]
    /\ lock' = None
    /\ UNCHANGED <<backtest, live>>

\* __init__: if self._initialized: return
InitCheck(t) ==
    /\ threads[t].pc = "init"
    /\ threads' = [threads EXCEPT ![t].pc =
                       IF heap[threads[t].self].initialized THEN "returned"
                       ELSE "body"]
    /\ UNCHANGED <<backtest, live, heap, instances, lock>>

\* __init__: the fields are set, the IB client is created and _setup_logger
\* adds its two handlers to the logger of the client_id.
InitBody(t) ==
    /\ threads[t].pc = "body"
    /\ heap' = [heap EXCEPT ![threads[t].self].ib = @ + 1,
                            ![threads[t].self].handlers = @ + 2]
    /\ threads' = [threads EXCEPT ![t].pc = "mark"]
    /\ UNCHANGED <<backtest, live, instances, lock>>

\* __init__: self._initialized = True
InitMark(t) ==
    /\ threads[t].pc = "mark"
    /\ heap' = [heap EXCEPT ![threads[t].self].initialized = TRUE]
    /\ threads' = [threads EXCEPT ![t].pc = "returned"]
    /\ UNCHANGED <<backtest, live, instances, lock>>

NextConnection ==
    \E t \in Threads :
        \/ Acquire(t)
        \/ Lookup(t)
        \/ InitCheck(t)
        \/ InitBody(t)
        \/ InitMark(t)

SpecConnection == InitConnection /\ [][NextConnection]_vars

(***************************************************************************)
(* The live loop of the breakout strategy: ODTEBreakoutStrategy.run.       *)
(***************************************************************************)
\* The last date of the clock.
LastDate == 2

\* self.tickers: the first four of the configured tickers.
LiveTickers == <<"SPY", "QQQ", "TSLA", "NVDA">>

\* The elements of seq at the positions of S, in order.
Pick(seq, S) ==
    LET F[i \in 0..Len(seq)] ==
          IF i = 0 THEN <<>>
          ELSE IF i \in S THEN Append(F[i - 1], seq[i]) ELSE F[i - 1]
    IN  F[Len(seq)]

\* What scan_for_opportunities may return: at most one opportunity for each
\* of the tickers, in their order.
Scans == {Pick(LiveTickers, S) : S \in SUBSET (1..Len(LiveTickers))}

\* start() and the first statements of run: the counter is 0 and
\* last_reset_date is the current date.
InitLive ==
    /\ NoBacktest
    /\ NoConnection
    /\ now_date = 0
    /\ last_reset_date = now_date
    /\ daily_trades_count = 0
    /\ opportunities = <<>>
    /\ live_pc = "loop"

\* The date of the clock changes.
Midnight ==
    /\ now_date < LastDate
    /\ now_date' = now_date + 1
    /\ UNCHANGED <<backtest, connection, last_reset_date, daily_trades_count,
                   opportunities, live_pc>>

\* One pass of the while loop up to the loop over the opportunities: the
\* counter is reset when the date has changed; outside of the trading hours
\* the pass ends; below the limit the tickers are scanned.
LoopPass ==
    /\ live_pc = "loop"
    /\ daily_trades_count' =
         IF now_date # last_reset_date THEN 0 ELSE daily_trades_count
    /\ last_reset_date' = now_date
    /\ \E is_trading_allowed \in BOOLEAN :
          IF is_trading_allowed /\ daily_trades_count' < MaxDailyTrades
          THEN /\ opportunities' \in Scans
               /\ live_pc' = IF opportunities' = <<>> THEN "loop" ELSE "execute"
          ELSE /\ opportunities' = <<>>
               /\ live_pc' = "loop"
    /\ UNCHANGED <<backtest, connection, now_date>>

\* One pass of the loop over the opportunities: execute_trade returns an
\* order id, which is counted, or None.
ExecuteTrade ==
    /\ live_pc = "execute"
    /\ \E trade_id \in {None, "order"} :
          daily_trades_count' =
              IF trade_id # None THEN daily_trades_count + 1
              ELSE daily_trades_count
    /\ opportunities' = Tail(opportunities)
    /\ live_pc' = IF opportunities' = <<>> THEN "loop" ELSE "execute"
    /\ UNCHANGED <<backtest, connection, now_date, last_reset_date>>

NextLive == Midnight \/ LoopPass \/ ExecuteTrade

SpecLive == InitLive /\ [][NextLive]_vars

(***************************************************************************)
(* Properties.                                                             *)
(***************************************************************************)
\* The Monday-to-Friday days of a..b.
Weekdays(a, b) == {d \in a..b : d % 7 \in 0..4}

\* The day loop stands between two days, or the run is over after its last day.
DayBoundary ==
    \/ pc = "loop"
    \/ pc \in {"done", "raised"} /\ current_date > end_date /\ equity_curve # <<>>

\* C1: P&L conservation.  At the end of every simulated day, and so at the
\* end of the run, the last equity snapshot minus the first equals the sum of
\* the pnl of the trades appended so far.
C1_PnlConservation ==
    DayBoundary =>
        equity_curve[Len(equity_curve)] - equity_curve[1] = SumPnl(trades)

\* A day boundary of a run whose log holds a winning and a losing trade.
C1_Witness ==
    /\ DayBoundary
    /\ Len(equity_curve) >= 3
    /\ \E i, j \in 1..Len(trades) : trades[i].pnl > 0 /\ trades[j].pnl < 0

\* C2: equity curve length.  Between days and after the run the curve holds
\* the initial capital followed by one snapshot per Monday-to-Friday day
\* simulated so far (Saturdays and Sundays append nothing); a weekday on
\* which no symbol has bars appends a snapshot equal to the previous one.
C2_EquityCurveLength ==
    /\ [](DayBoundary =>
            /\ equity_curve[1] = InitialCapital
            /\ Len(equity_curve) =
                 1 + Cardinality(Weekdays(start_date, current_date - 1))
            /\ (pc = "done" => current_date = end_date + 1))
    /\ [][(pc = "end" /\ day_data = NoData) =>
            /\ Len(equity_curve') = Len(equity_curve) + 1
            /\ equity_curve'[Len(equity_curve')] = equity_curve[Len(equity_curve)]
         ]_vars

\* A completed run over a range with a weekend inside and a weekday without
\* bars: three snapshots, the second equal to the first.
C2_Witness ==
    /\ pc = "done"
    /\ historical_data # {}
    /\ end_date >= start_date + 3
    /\ Len(equity_curve) >= 3
    /\ equity_curve[2] = equity_curve[1]

\* The timestamps of the bars of a day that satisfy the breakout condition.
QualifyingTimes(day, cfg) ==
    {day[i].t : i \in {k \in 2..Len(day) : DetectBreakout(day[k], day[1], cfg) # None}}

\* C3: at most one trade per symbol per day.  The breakout trade log never
\* holds two trades of the same symbol and day, and the trade of a day was
\* entered on the earliest bar of that day that satisfies the breakout
\* condition.
C3_OneTradePerSymbolDay ==
    IsBreakout =>
        /\ \A i, j \in 1..Len(trades) :
              (trades[i].ticker = trades[j].ticker /\ trades[i].date = trades[j].date)
                  => i = j
        /\ pc \in {"tickers", "end"} =>
              \A i \in 1..Len(trades) :
                 trades[i].date = current_date =>
                    LET q == QualifyingTimes(day_data[trades[i].ticker], config)
                    IN  /\ trades[i].entry_time \in q
                        /\ \A t \in q : trades[i].entry_time <= t

\* A trade recorded for a day on which several bars of its symbol satisfy
\* the breakout condition.
C3_Witness ==
    /\ IsBreakout
    /\ pc = "end"
    /\ \E i \in 1..Len(trades) :
          /\ trades[i].date = current_date
          /\ Cardinality(QualifyingTimes(day_data[trades[i].ticker], config)) >= 2

\* C4: for every trade of the breakout log, whatever its outcome, the pnl
\* equals (exit premium - entry premium) * quantity.
C4_PnlFromPremiums ==
    IsBreakout =>
        \A i \in 1..Len(trades) :
            trades[i].pnl
              = (trades[i].exit_price - trades[i].premium) * trades[i].quantity

\* C5: a run that records no trades still returns a degenerate metrics
\* record with win_rate 0 and total_return 0, and the driver does not report
\* the run as failed.
C5_DegenerateRunReported ==
    (pc = "done" /\ (trades = <<>> \/ historical_data = {})) =>
        /\ returned.kind = "metrics"
        /\ returned.win_rate[1] = 0
        /\ returned.total_return[1] = 0
        /\ driver_log = "completed"

\* The keys of the dict of active straddles, in order.
ActiveKeys == [i \in 1..Len(active_straddles) |-> active_straddles[i].key]

NoDuplicates(seq) == \A i, j \in 1..Len(seq) : seq[i] = seq[j] => i = j

\* C6: straddle lifecycle.  For each (symbol, earnings_date) at most one
\* straddle is active at a time, a straddle that was closed is never open
\* again, and the trade log holds at most one trade per (symbol,
\* earnings_date): one per closed straddle, no two of a symbol with the same
\* entry date.
C6_StraddleLifecycle ==
    ~IsBreakout =>
        /\ NoDuplicates(ActiveKeys)
        /\ \A i \in 1..Len(active_straddles) :
              /\ active_straddles[i].value.status = "OPEN"
              /\ \A j \in 1..Len(closed_keys) : closed_keys[j] # active_straddles[i].key
        /\ NoDuplicates(closed_keys)
        /\ pc # "start" => Len(trades) = Len(closed_keys)
        /\ \A i, j \in 1..Len(trades) :
              (trades[i].ticker = trades[j].ticker
               /\ trades[i].entry_date = trades[j].entry_date) => i = j

\* A straddle of a symbol whose calendar lists its earnings date twice has
\* been opened and closed.
C6_Witness ==
    /\ ~IsBreakout
    /\ pc = "done"
    /\ \E i \in 1..Len(closed_keys) :
          LET ticker == closed_keys[i][1]
              dates == earnings_dates[ticker]
          IN  \E a, b \in 1..Len(dates) :
                 a # b /\ dates[a] = closed_keys[i][2] /\ dates[b] = closed_keys[i][2]

\* The entries of the dict whose exit condition holds on the current day.
DueToday ==
    {i \in 1..Len(active_straddles) :
        current_date - active_straddles[i].value.earnings_date
            >= config.exit_days_after}

\* C7: straddle exit deferral.  In the closing pass of a day, an open
\* straddle whose exit condition holds and whose symbol has no bars that day
\* stays open and no trade is recorded for it; one whose symbol has bars is
\* closed that day, so a deferred straddle is closed on the first later
\* simulated day with bars.
C7_ExitDeferral ==
    [][pc = "closing" =>
         /\ \A i \in DueToday :
               LET e == active_straddles[i]
               IN  IF day_data[e.value.ticker] = <<>>
                   THEN /\ HasKey(active_straddles', e.key)
                        /\ \A j \in 1..Len(closed_keys') : closed_keys'[j] # e.key
                   ELSE /\ ~HasKey(active_straddles', e.key)
                        /\ \E j \in 1..Len(closed_keys') : closed_keys'[j] = e.key
         /\ Len(trades') - Len(trades)
              = Cardinality({i \in DueToday :
                               day_data[active_straddles[i].value.ticker] # <<>>})
      ]_vars

\* After the closing pass of a day a straddle is still open whose exit
\* condition held and whose symbol had no bars.
C7_Witness ==
    /\ pc = "end"
    /\ ~IsBreakout
    /\ \E i \in DueToday : day_data[active_straddles[i].value.ticker] = <<>>

\* C8: straddle entry deferral.  When the intended entry day D = E -
\* entry_days_before of an earnings date E lies in the run and a simulated
\* day after D has bars for the symbol, the straddle for E has been opened
\* by the end of that day.
C8_EntryDeferral ==
    (~IsBreakout /\ pc = "end") =>
        \A ticker \in historical_data \cap DOMAIN earnings_dates :
            \A k \in 1..Len(earnings_dates[ticker]) :
                LET E == earnings_dates[ticker][k]
                    D == E - config.entry_days_before
                IN  (start_date <= D /\ D < current_date
                     /\ day_data[ticker] # <<>>)
                        => StraddleKey(ticker, E) \in opened_keys

\* C9: no per-symbol/per-day condition halts a run.  No exception leaves the
\* day loop, and a run with data ends having taken up every calendar day of
\* start_date..end_date once, in ascending order.
C9_NoDayHaltsRun ==
    /\ pc = "raised" => current_date > end_date
    /\ (pc = "done" /\ historical_data # {}) =>
          visited = [i \in 1..(end_date - start_date + 1) |-> start_date + i - 1]

\* C10: ordering invariant.  The breakout simulator never simulates a day to
\* its end on a series that is not in strictly increasing timestamp order
\* (the run fails instead), and no trade exits before it was entered.
C10_OrderingEnforced ==
    (IsBreakout /\ pc = "end") =>
        /\ \A t \in historical_data : Increasing(day_data[t])
        /\ \A i \in 1..Len(trades) : trades[i].entry_time <= trades[i].exit_time

\* The parameters of the running strategy that the caller's configuration
\* does not supply.
MissingParameters ==
    DOMAIN (IF IsBreakout THEN BreakoutDefaults ELSE StraddleDefaults)
        \ DOMAIN custom_config

\* C11: a missing required parameter is fatal.  When the supplied
\* configuration lacks a required parameter of the strategy, the run aborts
\* before any day is simulated: no day is taken up and no trade and no
\* equity snapshot is produced.
C11_MissingParameterAborts ==
    MissingParameters # {} =>
        /\ visited = <<>>
        /\ trades = <<>>
        /\ equity_curve = <<>>
        /\ driver_log # "completed"

\* The premium rate in force by the rule "the value supplied when present,
\* the default otherwise".
SuppliedRate(key, default) ==
    IF key \in DOMAIN custom_config THEN custom_config[key] ELSE default

\* C12: premium rates are configurable.  The entry premium of every breakout
\* trade is close * premium_rate and each leg of every straddle is price *
\* straddle_premium_rate, the rate being the one supplied in the
\* configuration when present and the default otherwise.
C12_PremiumRatesConfigurable ==
    /\ IsBreakout =>
          \A i \in 1..Len(trades) :
             trades[i].premium
               = trades[i].entry_price * SuppliedRate("premium_rate", PremiumRate)
    /\ ~IsBreakout =>
          \A i \in 1..Len(active_straddles) :
             LET s == active_straddles[i].value
                 rate == SuppliedRate("straddle_premium_rate", StraddlePremiumRate)
             IN  /\ s.call_premium = s.entry_price * rate
                 /\ s.put_premium = s.entry_price * rate

\* The (ticker, earnings date) pairs whose entry day is the current day and
\* whose ticker has bars today, the first close being such that not even one
\* straddle can be bought: the two legs cost more than capital_per_trade, or
\* the close is not positive.
Unaffordable ==
    {k \in UNION {{<<t, earnings_dates[t][n]>> : n \in 1..Len(earnings_dates[t])} :
                     t \in historical_data \cap DOMAIN earnings_dates} :
        /\ k[2] - current_date = config.entry_days_before
        /\ day_data[k[1]] # <<>>
        /\ LET price == day_data[k[1]][1].close
           IN  \/ price <= 0
               \/ 2 * price * StraddlePremiumRate > config.capital_per_trade}

\* C13: straddle sizing and insufficient capital.  The quantity of a straddle
\* is floor(capital_per_trade / (call premium + put premium)); when that is
\* below 1, which includes a reference price that is not positive, no
\* straddle is opened for the earnings date and no trade is recorded for it.
\* So every active straddle and every trade has a quantity of at least 1 and
\* a positive entry price: closing never divides by zero.
C13_StraddleSizing ==
    ~IsBreakout =>
        /\ \A i \in 1..Len(active_straddles) :
              LET s == active_straddles[i].value
                  cost == s.call_premium + s.put_premium
              IN  /\ s.quantity >= 1
                  /\ s.entry_price > 0
                  /\ s.quantity * cost <= config.capital_per_trade
                  /\ config.capital_per_trade < (s.quantity + 1) * cost
        /\ \A i \in 1..Len(trades) :
              trades[i].quantity >= 1 /\ trades[i].entry_price > 0
        /\ pc \in {"closing", "end"} =>
              \A k \in Unaffordable :
                 /\ ~HasKey(active_straddles, StraddleKey(k[1], k[2]))
                 /\ StraddleKey(k[1], k[2]) \notin opened_keys
                 /\ \A j \in 1..Len(closed_keys) :
                       closed_keys[j] # StraddleKey(k[1], k[2])

\* After the opening pass of a day one symbol's straddle was opened while
\* the other symbol's earnings date could not be afforded: once for a close
\* of 0 and once for a close too high for the capital.
C13_Witness ==
    /\ ~IsBreakout
    /\ pc = "closing"
    /\ \E k \in Unaffordable :
          /\ \E i \in 1..Len(active_straddles) :
                /\ active_straddles[i].value.entry_date = current_date
                /\ active_straddles[i].value.ticker # k[1]
          /\ day_data[k[1]][1].close > 0

\* The metrics have been calculated from a trade log that is not empty.
Analyzed == pc \in {"analyzed", "analyzed twice"} /\ trades # <<>>

\* The highest of the snapshots 1..t of the equity curve.
Peak(t) ==
    CHOOSE m \in {equity_curve[k] : k \in 1..t} :
        \A k \in 1..t : m >= equity_curve[k]

\* C14: maximum drawdown.  For every equity curve with a positive initial
\* capital, max_drawdown is the largest over t of (running_max[t] -
\* equity[t]) / running_max[t] (times 100, in percent), running_max[t] being
\* the highest snapshot up to t; for the curve 10000, 10500, 9800, 11000 it is
\* 700 / 10500.
C14_MaxDrawdown ==
    Analyzed =>
        LET md == performance_metrics.max_drawdown
            steps == 1..Len(equity_curve)
        IN  /\ \E t \in steps :
                  EqFrac(md, <<Peak(t) - equity_curve[t], Peak(t)>>)
            /\ \A t \in steps :
                  ~LessFrac(md[1], md[2], Peak(t) - equity_curve[t], Peak(t))
            /\ equity_curve = <<100000000, 105000000, 98000000, 110000000>>
                  => md = <<7000000, 105000000>>

\* The metrics of the curve 10000, 10500, 9800, 11000 have been calculated.
C14_Witness ==
    /\ Analyzed
    /\ equity_curve = <<100000000, 105000000, 98000000, 110000000>>
    /\ performance_metrics.max_drawdown = <<7000000, 105000000>>

\* The sum of the pnl of the trades with a positive pnl, and of those with a
\* negative pnl.
SumOfWins == SumPnl(SelectSeq(trades, LAMBDA t : t.pnl > 0))

SumOfLosses == SumPnl(SelectSeq(trades, LAMBDA t : t.pnl < 0))

\* C15: profit factor.  For a trade log that is not empty, profit_factor is
\* |sum of the positive pnl| / |sum of the negative pnl| when the sum of the
\* losses is not zero, and it is +infinity exactly when the sum of the losses
\* is zero and at least one trade has pnl > 0: a log whose trades all have
\* pnl = 0 does not yield +infinity.
C15_ProfitFactor ==
    Analyzed =>
        LET pf == performance_metrics.profit_factor
        IN  /\ SumOfLosses # 0 =>
                  /\ pf.kind = "ratio"
                  /\ pf.value = <<Abs(SumOfWins), Abs(SumOfLosses)>>
            /\ pf.kind = "inf" <=>
                  (SumOfLosses = 0 /\ \E i \in 1..Len(trades) : trades[i].pnl > 0)

\* C16: arithmetic degeneracy resolves to sentinels instead of raising.
\* annual_return is 0 when end_date - start_date is 0 days or less, and
\* sharpe_ratio is 0 when the volatility of the equity curve is 0, as it is
\* for a curve that never moves (all pnl 0) and for the curve of a
\* single-day run (one daily return).
C16_DegenerateMetrics ==
    Analyzed =>
        /\ performance_metrics.kind = "metrics"
        /\ end_date - start_date <= 0 => performance_metrics.annual_return = Zero
        /\ performance_metrics.volatility.kind # "positive"
              => performance_metrics.sharpe_ratio = Zero
        /\ (\A t \in 1..Len(equity_curve) : equity_curve[t] = equity_curve[1])
              => performance_metrics.sharpe_ratio = Zero
        /\ Len(equity_curve) = 2
              => /\ performance_metrics.volatility = Zero
                 /\ performance_metrics.sharpe_ratio = Zero

\* The metrics of a single-day run with a loss have been calculated: no
\* elapsed days, one daily return.
C16_Witness ==
    /\ Analyzed
    /\ end_date - start_date = 0
    /\ Len(equity_curve) = 2
    /\ equity_curve[2] < equity_curve[1]
    /\ performance_metrics.annual_return = Zero
    /\ performance_metrics.sharpe_ratio = Zero

\* C17: idempotence of the performance analyzer.  Calculating the metrics a
\* second time on the same trade log and equity curve yields the metrics of
\* the first time and leaves the trade log and the equity curve as they were.
C17_AnalyzerIdempotent ==
    [][pc = "analyzed" =>
         /\ performance_metrics' = performance_metrics
         /\ trades' = trades
         /\ equity_curve' = equity_curve
      ]_vars

\* The metrics of a log with a winning and a losing trade have been
\* calculated twice.
C17_Witness ==
    /\ pc = "analyzed twice"
    /\ performance_metrics.kind = "metrics"
    /\ \E i, j \in 1..Len(trades) : trades[i].pnl > 0 /\ trades[j].pnl < 0

\* The trades entered on the current day, while its bars are at hand.
Today ==
    {i \in 1..Len(trades) :
        trades[i].date = current_date /\ day_data[trades[i].ticker] # <<>>}

\* The bars of the day of a trade of today, and the position of its entry bar.
DayOf(trade) == day_data[trade.ticker]

EntryIndex(trade) ==
    CHOOSE i \in 1..Len(DayOf(trade)) : DayOf(trade)[i].t = trade.entry_time

\* The positions of the bars of a day that break out of the range of the
\* day's first bar on a volume above volume_multiplier times its volume.
BreakoutBars(day) ==
    {i \in 2..Len(day) :
        /\ day[i].volume * 10 > day[1].volume * config.volume_multiplier
        /\ (day[i].close > day[1].high \/ day[i].close < day[1].low)}

Earliest(S) == CHOOSE i \in S : \A k \in S : i <= k

\* C18: breakout signal detection.  The entry bar of a day's trade is the
\* earliest bar i >= 1 (bar 0 being the first) with volume[i] > range.volume
\* * volume_multiplier and close[i] > range.high (CALL) or close[i] <
\* range.low (PUT), the range being that of bar 0.  The comparisons are
\* strict, bar 0 never signals, and a day with fewer than 2 bars, or with no
\* such bar, produces no trade.
C18_SignalDetection ==
    IsBreakout =>
        /\ \A n \in Today :
              LET day == DayOf(trades[n])
                  i == EntryIndex(trades[n])
              IN  /\ BreakoutBars(day) # {}
                  /\ i = Earliest(BreakoutBars(day))
                  /\ i >= 2
                  /\ trades[n].entry_price = day[i].close
                  /\ trades[n].signal = IF day[i].close > day[1].high THEN "CALL"
                                         ELSE "PUT"
        /\ pc = "end" =>
              \A t \in TickerSet :
                 (\E n \in Today : trades[n].ticker = t)
                     <=> BreakoutBars(day_data[t]) # {}

\* A trade was entered on the fourth bar of a day whose second bar closed at
\* the range high on a high volume and whose third bar closed above it on a
\* volume of exactly volume_multiplier times that of the first.
C18_Witness ==
    /\ IsBreakout
    /\ pc = "end"
    /\ \E n \in Today :
          LET day == DayOf(trades[n])
          IN  /\ EntryIndex(trades[n]) = 4
              /\ day[2].close = day[1].high
              /\ day[2].volume * 10 > day[1].volume * config.volume_multiplier
              /\ day[3].close > day[1].high
              /\ day[3].volume * 10 = day[1].volume * config.volume_multiplier

\* The premium of a trade repriced at bar j of its day: the entry premium
\* scaled by the move of the close since the entry, in the direction of the
\* signal.
Repriced(trade, j) ==
    IF trade.signal = "CALL"
    THEN (trade.premium * DayOf(trade)[j].close) \div trade.entry_price
    ELSE (trade.premium * (2 * trade.entry_price - DayOf(trade)[j].close))
             \div trade.entry_price

StopLoss(trade) == (trade.premium * config.sl_multiplier) \div 10

TakeProfit(trade) == (trade.premium * config.tp_multiplier) \div 10

\* The positions of the bars after the entry at which the repriced premium
\* touches the stop-loss or the take-profit.
Touches(trade) ==
    {j \in (EntryIndex(trade) + 1)..Len(DayOf(trade)) :
        \/ Repriced(trade, j) <= StopLoss(trade)
        \/ Repriced(trade, j) >= TakeProfit(trade)}

\* C19: breakout exit ordering.  After the entry the bars are examined in
\* chronological order and the trade exits at the first bar whose repriced
\* premium is <= the stop-loss (exit at the stop-loss) or >= the take-profit
\* (exit at the take-profit); later bars have no effect, so a stop-loss bar
\* followed by a take-profit bar yields the stop-loss, and the reverse the
\* take-profit.
C19_ExitOrdering ==
    IsBreakout =>
        \A n \in Today :
            Touches(trades[n]) # {} =>
                LET trade == trades[n]
                    j == Earliest(Touches(trade))
                    exit == IF Repriced(trade, j) <= StopLoss(trade)
                            THEN StopLoss(trade) ELSE TakeProfit(trade)
                IN  /\ trade.exit_time = DayOf(trade)[j].t
                    /\ trade.exit_price = exit
                    /\ trade.pnl = (exit - trade.premium) * trade.quantity

\* A trade exited at its stop-loss on a bar that is followed by a bar at
\* which it would have reached its take-profit.
C19_Witness ==
    /\ IsBreakout
    /\ pc = "end"
    /\ \E n \in Today :
          \E j, k \in Touches(trades[n]) :
             /\ j < k
             /\ Repriced(trades[n], j) <= StopLoss(trades[n])
             /\ Repriced(trades[n], k) >= TakeProfit(trades[n])
             /\ trades[n].exit_price = StopLoss(trades[n])

\* C20: breakout expiry.  When bars remain after the entry and none touches
\* the stop-loss or the take-profit, the trade is EXPIRED with the premium
\* repriced at the day's last bar for its exit premium; when the signal
\* fires on the day's last bar the trade is EXPIRED, its exit premium is
\* recorded as -premium and it is a full loss of premium * quantity.
C20_Expiry ==
    IsBreakout =>
        \A n \in Today :
            LET trade == trades[n]
                last == Len(DayOf(trade))
            IN  /\ (EntryIndex(trade) < last /\ Touches(trade) = {}) =>
                      /\ trade.status = "EXPIRED"
                      /\ trade.exit_price = Repriced(trade, last)
                      /\ trade.exit_time = DayOf(trade)[last].t
                /\ EntryIndex(trade) = last =>
                      /\ trade.status = "EXPIRED"
                      /\ trade.exit_price = -trade.premium
                      /\ trade.pnl = (-trade.premium) * trade.quantity

\* C21: straddle exit valuation.  For every closed straddle, price_change_pct
\* is |close - entry_price| / entry_price; when it is >= min_expected_move
\* (equality included) the option value is entry_cost * (1 +
\* price_change_pct), otherwise entry_cost * 0.5; the pnl is (option value -
\* entry_cost) * quantity with entry_cost the sum of the two premiums.  An
\* entry at 200 and a move of 1 percent give -6.0 per contract.
C21_StraddleExitValuation ==
    ~IsBreakout =>
        \A i \in 1..Len(trades) :
            LET trade == trades[i]
                move == IF trade.exit_price >= trade.entry_price
                        THEN trade.exit_price - trade.entry_price
                        ELSE trade.entry_price - trade.exit_price
                entry_cost == 2 * StraddlePremiumRate * trade.entry_price
            IN  /\ trade.premium = entry_cost
                /\ trade.price_change_pct = <<move * 100, trade.entry_price>>
                /\ IF move * 100 >= config.min_expected_move * trade.entry_price
                   THEN trade.pnl * trade.entry_price
                          = entry_cost * move * trade.quantity
                   ELSE 2 * trade.pnl = (-entry_cost) * trade.quantity
                /\ (trade.entry_price = 200 /\ trade.exit_price = 202)
                      => trade.pnl = (-60000) * trade.quantity

\* The log holds a straddle entered at 200 and closed at 206, a move of
\* exactly min_expected_move, with a gain, and the run is over.
C21_Witness ==
    /\ ~IsBreakout
    /\ pc = "done"
    /\ \E i \in 1..Len(trades) :
          /\ trades[i].entry_price = 200
          /\ trades[i].exit_price = 206
          /\ trades[i].pnl > 0

\* C22: straddle exit timing.  No straddle is closed before its exit
\* condition holds: every straddle trade has exit_date - earnings_date >=
\* exit_days_after and exit_date >= entry_date, and with entry_days_before >=
\* 0 and exit_days_after >= 1 its exit date is after its entry date, so no
\* straddle is opened and closed on the same simulated day.  The trade at
\* position j of the log is that of the j-th straddle closed.
C22_StraddleExitTiming ==
    ~IsBreakout =>
        \A j \in 1..Len(trades) :
            LET earnings_date == closed_keys[j][2]
            IN  /\ trades[j].ticker = closed_keys[j][1]
                /\ trades[j].exit_date - earnings_date >= config.exit_days_after
                /\ trades[j].exit_date >= trades[j].entry_date
                /\ (config.entry_days_before >= 0 /\ config.exit_days_after >= 1)
                      => trades[j].exit_date > trades[j].entry_date

\* A run ended whose log holds a straddle closed on the very day its exit
\* condition began to hold and one closed later than that.
C22_Witness ==
    /\ ~IsBreakout
    /\ pc = "done"
    /\ \E i, j \in 1..Len(trades) :
          /\ trades[i].exit_date - closed_keys[i][2] = config.exit_days_after
          /\ trades[j].exit_date - closed_keys[j][2] > config.exit_days_after

\* The outcome of a trade of today by the rule through which it exited: that
\* of the first bar after the entry that touches an exit, the stop-loss
\* being tested first, and EXPIRED when no bar does.
ExitTaken(trade) ==
    IF Touches(trade) = {} THEN "EXPIRED"
    ELSE IF Repriced(trade, Earliest(Touches(trade))) <= StopLoss(trade) THEN "SL"
    ELSE "TP"

\* C23: the outcome label matches the exit taken.  For every breakout trade
\* and every configuration of sl_multiplier and tp_multiplier, the status is
\* TP exactly when the trade exited through the take-profit rule, SL exactly
\* when it exited through the stop-loss rule, and EXPIRED exactly when
\* neither rule fired, which includes a signal on the last bar of the day.
C23_LabelMatchesExit ==
    IsBreakout => \A n \in Today : trades[n].status = ExitTaken(trades[n])

\* C24: breakout sizing.  Every breakout trade has the quantity max(1,
\* floor(risk_per_trade / premium)), which is at least 1, so that a breakout
\* signal is never skipped for want of capital: not when the premium exceeds
\* risk_per_trade, and not when the running capital is zero or negative.
C24_BreakoutSizing ==
    IsBreakout =>
        /\ \A n \in 1..Len(trades) :
              LET q == trades[n].quantity
                  premium == trades[n].premium
              IN  /\ q >= 1
                  /\ \/ q = 1 /\ config.risk_per_trade < 2 * premium
                     \/ /\ q * premium <= config.risk_per_trade
                        /\ config.risk_per_trade < (q + 1) * premium
        /\ pc = "end" =>
              \A t \in TickerSet :
                 BreakoutBars(day_data[t]) # {}
                     => \E n \in Today : trades[n].ticker = t

\* A day was simulated to its end on a negative running capital, with a
\* trade of today whose premium exceeds risk_per_trade.
C24_Witness ==
    /\ IsBreakout
    /\ pc = "end"
    /\ current_capital < 0
    /\ \E n \in Today :
          /\ trades[n].premium > config.risk_per_trade
          /\ trades[n].quantity = 1

\* C25: the metrics a backtest call returns are those of the trades of that
\* call (total_trades is the number of trades the call recorded), for any
\* sequence of calls on one engine, also when an earlier call recorded
\* trades and this one none.
C25_MetricsOfThisCall ==
    (pc = "done" /\ returned.kind = "metrics")
        => returned.total_trades = Len(trades)

TimesClosed(key) ==
    Cardinality({j \in 1..Len(closed_keys) : closed_keys[j] = key})

\* C27: every opened straddle is closed and recorded as exactly one trade
\* once the run comes to a weekday D with bars for its symbol and D -
\* earnings_date >= exit_days_after: at the end of such a day the straddle
\* has been closed, once, and is no longer active.  At any time an opened
\* straddle is either active, with no trade, or closed, with one trade.  A
\* straddle still open when the run ends has no trade and no part in the
\* equity, which is the initial capital plus the pnl of the trades: opening
\* a straddle leaves the capital, the day's P&L and the trades as they are.
C27_StraddleClosedOnce ==
    (~IsBreakout /\ pc \in {"closing", "end", "loop", "done"}) =>
        /\ \A key \in opened_keys :
              /\ TimesClosed(key) = IF HasKey(active_straddles, key) THEN 0 ELSE 1
              /\ (/\ pc = "end"
                  /\ day_data[key[1]] # <<>>
                  /\ current_date - key[2] >= config.exit_days_after)
                     => TimesClosed(key) = 1
        /\ Len(trades) = Len(closed_keys)
        /\ \A j \in 1..Len(trades) : trades[j].ticker = closed_keys[j][1]
        /\ pc = "closing" =>
              /\ daily_pnl = 0
              /\ current_capital = equity_curve[Len(equity_curve)]
        /\ (pc \in {"loop", "done"} /\ equity_curve # <<>>) =>
              /\ current_capital = InitialCapital + SumPnl(trades)
              /\ equity_curve[Len(equity_curve)] = current_capital

\* A run has ended with one straddle closed on a day later than the first
\* day its exit was due, and another still open.
C27_Witness ==
    /\ ~IsBreakout
    /\ pc = "done"
    /\ active_straddles # <<>>
    /\ \E j \in 1..Len(trades) :
          trades[j].exit_date - closed_keys[j][2] > config.exit_days_after

\* C28: bounded breakout outcome.  When 0 <= sl_multiplier <= 1 <=
\* tp_multiplier, the pnl of every breakout trade lies between -premium *
\* quantity and (tp_multiplier - 1) * premium * quantity, the pnl of a TP
\* trade is exactly (tp_multiplier - 1) * premium * quantity and the pnl of
\* an SL trade exactly (sl_multiplier - 1) * premium * quantity.  The
\* multipliers are in tenths.
C28_BoundedOutcome ==
    (/\ IsBreakout
     /\ 0 <= config.sl_multiplier
     /\ config.sl_multiplier <= 10
     /\ 10 <= config.tp_multiplier) =>
        \A n \in Today :
            LET trade == trades[n]
                stake == trade.premium * trade.quantity
            IN  /\ -stake <= trade.pnl
                /\ 10 * trade.pnl <= (config.tp_multiplier - 10) * stake
                /\ trade.status = "TP"
                      => 10 * trade.pnl = (config.tp_multiplier - 10) * stake
                /\ trade.status = "SL"
                      => 10 * trade.pnl = (config.sl_multiplier - 10) * stake

\* C29: connection singleton under concurrency.  However the threads that
\* construct IBKRConnection with the same client_id keyword interleave, all
\* of them obtain the same object, and the initialization body (the IB
\* client, the subscription table, the handlers of the logger) is executed
\* at most once for that object.
C29_SingletonUnderConcurrency ==
    /\ \A t, u \in DOMAIN threads :
          (/\ threads[t].self # 0
           /\ threads[u].self # 0
           /\ threads[t].client_id = threads[u].client_id)
              => threads[t].self = threads[u].self
    /\ \A o \in 1..Len(heap) : heap[o].ib <= 1 /\ heap[o].handlers <= 2

\* C30: daily trade limit of the live breakout loop.  Within a calendar
\* day daily_trades_count never exceeds max_daily_trades, also when one scan
\* returns several opportunities.
C30_DailyTradeLimit == daily_trades_count <= MaxDailyTrades

=============================================================================
